---- MODULE Spec2Model ----
(***************************************************************************)
(* Model of the infinize-crawler start/status API, the progress writer,    *)
(* the single-file formatter and the crawl orchestration around them.      *)
(*                                                                         *)
(* Strings that the code inspects character by character (labels, URL      *)
(* pathnames) are sequences of tokens.  A URL is <<protocol>> followed by   *)
(* the tokens of its pathname; the host is the crawled site's host.        *)
(* A file is a sequence of blocks: <<>> is a file that was opened with     *)
(* flag 'w' (truncated) and not written yet.                               *)
(***************************************************************************)
EXTENDS Integers, Sequences, FiniteSets, TLC

\* ------------------------------------------------------------------ bounds
MaxRequests == 2
MaxPathLen == 5
MaxHostLen == 5

\* ------------------------------------------------------- program constants
maxConcurrency == 5
maxRequestRetries == 3
TotalEnqueuedInit == 1

Requests == 1..MaxRequests

\* ------------------------------------------------- label -> job identifier
\* "university" stands for that word, written in lower case, as one token
LabelChars == {"U", "u", "1", " ", "!", "-", "$", "&", "'", "university"}

toLowerCase(ch) == IF ch = "U" THEN "u" ELSE ch

IsSpace(ch) == ch = " "

IsIdChar(ch) == ch \in {"u", "1", "-", "university"}

RECURSIVE MapLower(_)
MapLower(s) == IF s = <<>> THEN <<>> ELSE <<toLowerCase(Head(s))>> \o MapLower(Tail(s))

\* .replace(/\s+/g, '-'): every maximal run of whitespace becomes one hyphen
RECURSIVE ReplaceSpaceRuns(_)
ReplaceSpaceRuns(s) ==
    IF s = <<>> THEN <<>>
    ELSE IF IsSpace(Head(s))
         THEN IF Len(s) > 1 /\ IsSpace(s[2])
              THEN ReplaceSpaceRuns(Tail(s))
              ELSE <<"-">> \o ReplaceSpaceRuns(Tail(s))
         ELSE <<Head(s)>> \o ReplaceSpaceRuns(Tail(s))

\* .replace(/[^a-z0-9-]/g, '')
StripNonId(s) == SelectSeq(s, IsIdChar)

deriveCrawlId(universityName) == StripNonId(ReplaceSpaceRuns(MapLower(universityName)))

\* the labels the start requests of the model carry
Labels == { <<>>, <<"U">>, <<"u">>, <<"!">>, <<"U", "$", "'">> }

JobIds == { deriveCrawlId(l) : l \in Labels }

\* --------------------------------------------------------------------- URLs
SeedMissing == <<>>
SeedJunk == <<"junk">>
SeedFtp == <<"ftp:", "/">>
SeedHttps == <<"https:", "/">>

SeedInputs == { SeedMissing, SeedJunk, SeedFtp, SeedHttps }

\* new URL(s) succeeds
Parses(s) == Len(s) >= 2 /\ s[1] \in {"http:", "https:", "ftp:"} /\ s[2] = "/"

protocolOf(s) == s[1]

pathnameOf(s) == Tail(s)

IndexNames == {"index.html"}

PathTokens == {"/", "a", "b"} \cup IndexNames

\* the URL pathname setter: a special-scheme URL never has an empty path
SetPathname(p) == IF p = <<>> THEN <<"/">> ELSE p

\* .replace(/\/+$/, '')
RECURSIVE StripTrailingSlashes(_)
StripTrailingSlashes(p) ==
    IF p # <<>> /\ p[Len(p)] = "/" THEN StripTrailingSlashes(SubSeq(p, 1, Len(p) - 1)) ELSE p

\* .replace(/\/+/g, '/')
RECURSIVE CollapseSlashes(_)
CollapseSlashes(p) ==
    IF Len(p) < 2 THEN p
    ELSE IF p[1] = "/" /\ p[2] = "/" THEN CollapseSlashes(Tail(p))
         ELSE <<Head(p)>> \o CollapseSlashes(Tail(p))

\* .replace(/\/(index|default)\.(html?|php|aspx?)$/i, ''): one match, at the end
StripIndexFile(p) ==
    IF Len(p) >= 2 /\ p[Len(p)] \in IndexNames /\ p[Len(p) - 1] = "/"
    THEN SubSeq(p, 1, Len(p) - 2)
    ELSE p

normalizePathname(p) ==
    LET p1 == IF p # <<"/">> THEN SetPathname(StripTrailingSlashes(p)) ELSE p
        p2 == SetPathname(CollapseSlashes(p1))
    IN  SetPathname(StripIndexFile(p2))

\* normalizeUrl of a URL that parses (fragment and query are absent in the model)
normalizeUrl(u) == <<protocolOf(u)>> \o normalizePathname(pathnameOf(u))

\* ------------------------------------------------------- the crawled site
Root == <<"https:", "/">>
PageA == <<"https:", "/", "a">>
PageB == <<"https:", "/", "b">>
PageAIndex == <<"https:", "/", "a", "/", "index.html">>

PagePdf == <<"https:", "/", "doc.pdf">>
PageIndex == <<"https:", "/", "index.html">>

SiteNames == {"solo", "plain", "alias"}

\* the sites of the command-line crawl; "index" has a page /index.html next to /
CliSiteNames == {"plain", "index"}

\* the pages of a site, and the same-domain anchors the renderer reports on each
PagesOf(s) ==
    IF s = "solo" THEN {Root}
    ELSE IF s = "plain" THEN {Root, PageA, PageB}
    ELSE IF s = "index" THEN {Root, PageIndex}
    ELSE {Root, PageA, PageAIndex}

LinksOn(s, u) ==
    IF s = "solo" THEN {Root, PagePdf}
    ELSE IF s = "plain"
    THEN (IF u = Root THEN {PageA, PageB, PagePdf} ELSE IF u = PageA THEN {Root, PageB} ELSE {Root})
    ELSE IF s = "index" THEN (IF u = Root THEN {PageIndex} ELSE {Root})
    ELSE (IF u = Root THEN {PageA, PageAIndex} ELSE {Root})

AllPages == UNION { PagesOf(s) : s \in SiteNames \cup CliSiteNames }

\* ---------------------------------------------------------- progress record
NullStr == "null"
NullPath == <<"null">>
NoUrl == <<>>

getSingleFilePath(universityName) == <<"md">> \o deriveCrawlId(universityName)

\* the initial record with an empty currentUrl
initialProgress_noCurrentUrl(seedUrl, universityName) ==
    [ status |-> "starting", pagesProcessed |-> 0, totalEnqueued |-> 0,
      currentUrl |-> NoUrl, startTime |-> "t", endTime |-> NullStr,
      seedUrl |-> seedUrl, universityName |-> universityName,
      error |-> NullStr, outputFile |-> NullPath ]

initialProgress(seedUrl, universityName) ==
    [ status |-> "starting", pagesProcessed |-> 0, totalEnqueued |-> 0,
      currentUrl |-> seedUrl, startTime |-> "t", endTime |-> NullStr,
      seedUrl |-> seedUrl, universityName |-> universityName,
      error |-> NullStr, outputFile |-> NullPath ]

updateRecord(progress, pp, te, currentUrl) ==
    [ progress EXCEPT !.status = "running", !.pagesProcessed = pp,
                      !.totalEnqueued = te, !.currentUrl = currentUrl ]

\* completeProgress without the assignment progress.totalEnqueued = pagesProcessed
completeRecord_keepsEnqueued(progress, pp, outputFile) ==
    [ progress EXCEPT !.status = "completed", !.pagesProcessed = pp, !.endTime = "t",
                      !.outputFile = outputFile, !.currentUrl = NoUrl ]

completeRecord(progress, pp, outputFile) ==
    [ progress EXCEPT !.status = "completed", !.pagesProcessed = pp,
                      !.totalEnqueued = pp, !.endTime = "t",
                      !.outputFile = outputFile, !.currentUrl = NoUrl ]

\* failProgress that also clears currentUrl, as completeProgress does
failRecord_clearsUrl(progress, error) ==
    [ progress EXCEPT !.status = "failed", !.endTime = "t", !.error = error, !.currentUrl = NoUrl ]

failRecord(progress, error) ==
    [ progress EXCEPT !.status = "failed", !.endTime = "t", !.error = error ]

Terminal(rec) == rec.status \in {"completed", "failed"}

\* ------------------------------------------------- consolidated document
TempHeader == [ kind |-> "temp", url |-> NoUrl, by |-> 0, pages |-> 0, label |-> <<>> ]

createHeader(universityName, seedUrl, pp) ==
    [ kind |-> "header", url |-> seedUrl, by |-> 0, pages |-> pp, label |-> universityName ]

\* formatPageSection: the section carries the page URL and its crawledAt stamp,
\* which is distinct for every extraction (by = the crawl that extracted it)
formatPageSection(url, by) ==
    [ kind |-> "section", url |-> url, by |-> by, pages |-> 0, label |-> <<>> ]

\* a piece of the header text that ends where a replacement pattern stood
headerText(label) ==
    [ kind |-> "header-text", url |-> NoUrl, by |-> 0, pages |-> 0, label |-> label ]

\* the replacement string of String.prototype.replace is not taken literally:
\* $$ stands for a dollar sign, $& for the matched text and $' for the text
\* after the match (the backquote pattern, the text before the match, needs a
\* character that LabelChars does not have).  The label is the part of the
\* header that is scanned here; rest is what is left of it, acc the literal
\* text so far.
RECURSIVE expandReplacement(_, _, _, _, _)
expandReplacement(rest, acc, header, matched, after) ==
    IF rest = <<>> THEN << [ header EXCEPT !.label = acc ] >>
    ELSE IF Len(rest) >= 2 /\ rest[1] = "$" /\ rest[2] = "$"
    THEN expandReplacement(SubSeq(rest, 3, Len(rest)), Append(acc, "$"),
                           header, matched, after)
    ELSE IF Len(rest) >= 2 /\ rest[1] = "$" /\ rest[2] \in {"&", "'"}
    THEN <<headerText(acc)>>
         \o (IF rest[2] = "&" THEN matched ELSE after)
         \o expandReplacement(SubSeq(rest, 3, Len(rest)), <<>>, header, matched, after)
    ELSE expandReplacement(Tail(rest), Append(acc, Head(rest)), header, matched, after)

\* content.replace(/<!-- TEMP_HEADER:.*?-->\n\n/s, header): first match only
replaceTempHeader(content, header) ==
    IF \E i \in 1..Len(content) : content[i].kind = "temp"
    THEN LET i == CHOOSE j \in 1..Len(content) :
                      /\ content[j].kind = "temp"
                      /\ \A k \in 1..(j - 1) : content[k].kind # "temp"
             before == SubSeq(content, 1, i - 1)
             after == SubSeq(content, i + 1, Len(content))
         IN  before
             \o expandReplacement(header.label, <<>>, header, <<content[i]>>, after)
             \o after
    ELSE content

\* -------------------------------------------------------------------- state
VARIABLES
    site,           \* the site behind the seed URL
    req,            \* start requests: position in POST, body, response
    activeCrawls,   \* route.ts module-level Set
    dirs,           \* job directories that exist
    progExists,     \* job ids whose progress.json exists
    progress,       \* content of progress.json per job id: <<>> or <<record>>
    docExists,      \* job ids whose consolidated document exists
    doc,            \* content of the consolidated document per job id
    lastWrite,      \* history: the last record written to progress.json, and by which operation
    cpc,            \* position of runCrawlerAsync per accepted request
    pagesProcessed, \* closure variable of runCrawlerAsync
    totalEnqueued,  \* closure variable of runCrawlerAsync
    processedUrls,  \* closure variable of runCrawlerAsync
    seen,           \* request queue: unique keys ever added
    pending,        \* request queue: requests not yet handed to a handler
    hnd,            \* page handlers of a crawl, per URL
    snap,           \* content read by finalizeSingleFile / completeProgress before its write
    getResp,        \* response of the last status query
    norm,           \* a URL handed to normalizeUrl or isInternalUrl, and the results
    broken,         \* pages whose fetch or extraction throws on every attempt
    unwritable,     \* pages for whose section fs.appendFile rejects
    finalizeFault,  \* finalizeSingleFile cannot read the consolidated document
    retryCount,     \* request.retryCount per crawl and URL
    sect,           \* a rendered page, its PageData and the section formatted from it
    linksState,     \* linksFormatter.js module-level state
    linksLog,       \* history: the calls made to the links formatter
    added,          \* history: the URLs handed to addLinks since the last init or reset
    listing,        \* what finalizeLinks wrote last
    cli,            \* the command-line crawl: its configuration, position, counters and queue
    cliH,           \* the page handlers of the command-line crawl, per URL
    files,          \* the per-page artifacts and listings written by the formatters
    saveFault       \* how the save of each format goes wrong, if it does

vars == << norm, site, req, activeCrawls, dirs, progExists, progress, docExists, doc, lastWrite,
           cpc, pagesProcessed, totalEnqueued, processedUrls, seen, pending, hnd, snap, getResp,
           broken, unwritable, finalizeFault, retryCount, sect, linksState, linksLog, added, listing,
           cli, cliH, files, saveFault >>

linksVars == << linksState, linksLog, added, listing >>
cliVars == << cli, cliH, files, saveFault >>
envVars == << site, norm, broken, unwritable, finalizeFault, sect, linksVars, cliVars >>
fsVars == << dirs, progExists, progress, docExists, doc, lastWrite >>
crawlVars == << cpc, pagesProcessed, totalEnqueued, processedUrls, seen, pending, hnd, snap,
               retryCount >>
mainVars == << site, broken, unwritable, finalizeFault, req, activeCrawls, fsVars, crawlVars, getResp >>

\* const linksState = { allLinks: new Set(), seedUrl: '', universityName: '' }
EmptyLinks == [ allLinks |-> <<>>, seedUrl |-> <<>>, universityName |-> <<>> ]

NoListing == [ written |-> FALSE, universityName |-> <<>>, seedUrl |-> <<>>,
               totalLinks |-> 0, links |-> <<>> ]

Formats == {"json", "markdown", "links"}

NoCli == [ pc |-> "off", seedUrl |-> <<>>, universityName |-> <<>>, selectedFormats |-> <<>>,
           pagesProcessed |-> 0, filesSaved |-> 0, seen |-> {}, pending |-> {} ]

IdleCliHandler == [ pc |-> "idle", i |-> 0, pageData |-> <<>>, saved |-> <<>> ]

\* no command-line crawl
InitCliOff ==
    /\ cli = NoCli
    /\ cliH = [ u \in AllPages |-> IdleCliHandler ]
    /\ files = {}
    /\ saveFault = [ f \in Formats |-> "none" ]

NoRequest == [ pc |-> "idle", seedUrl |-> SeedMissing, universityName |-> <<>>,
               status |-> 0, crawlId |-> <<>> ]

IdleHandler == [ pc |-> "idle", pp |-> 0, te |-> 0, rec |-> <<>> ]

NoResp == [ code |-> 0, crawlId |-> <<>>, body |-> <<>> ]

\* a request slot over which no start request arrives
Unused == [ NoRequest EXCEPT !.pc = "unused" ]

InitFiles ==
    /\ activeCrawls = {}
    /\ dirs = {}
    /\ progExists = {}
    /\ progress = [ id \in JobIds |-> <<>> ]
    /\ docExists = {}
    /\ doc = [ id \in JobIds |-> <<>> ]
    /\ lastWrite = [ id \in JobIds |-> <<>> ]
    /\ cpc = [ r \in Requests |-> "none" ]
    /\ pagesProcessed = [ r \in Requests |-> 0 ]
    /\ totalEnqueued = [ r \in Requests |-> 0 ]
    /\ processedUrls = [ r \in Requests |-> {} ]
    /\ seen = [ r \in Requests |-> {} ]
    /\ pending = [ r \in Requests |-> {} ]
    /\ hnd = [ r \in Requests |-> [ u \in AllPages |-> IdleHandler ] ]
    /\ snap = [ r \in Requests |-> <<>> ]
    /\ retryCount = [ r \in Requests |-> [ u \in AllPages |-> 0 ] ]
    /\ getResp = NoResp
    /\ linksState = EmptyLinks
    /\ linksLog = <<>>
    /\ added = {}
    /\ listing = NoListing

NoNorm == [ step |-> "off", url |-> <<>>, once |-> <<>>, twice |-> <<>> ]

NoSect == [ step |-> "off" ]

\* one start request, for a crawl of any of the sites
Init ==
    /\ sect = NoSect
    /\ site \in SiteNames
    /\ broken \in SUBSET PagesOf(site)
    /\ unwritable \in SUBSET (PagesOf(site) \ broken)
    /\ finalizeFault \in BOOLEAN
    /\ norm = NoNorm
    /\ req = [ r \in Requests |-> IF r = 1 THEN NoRequest ELSE Unused ]
    /\ InitFiles
    /\ InitCliOff

\* several start requests in flight at once, for a site of one page
InitRace ==
    /\ sect = NoSect
    /\ site = "solo"
    /\ broken \in SUBSET PagesOf(site)
    /\ unwritable \in SUBSET (PagesOf(site) \ broken)
    /\ finalizeFault \in (IF broken = {} THEN {FALSE} ELSE BOOLEAN)
    /\ norm = NoNorm
    /\ req = [ r \in Requests |-> NoRequest ]
    /\ InitFiles
    /\ InitCliOff

\* ------------------------------------------------ POST /api/crawl/start
\* the validation without the protocol check
validStart_anyProtocol(seedUrl, universityName) ==
    /\ seedUrl # <<>>
    /\ universityName # <<>>
    /\ Parses(seedUrl)

\* the validation of route.ts: seedUrl and universityName are truthy, the URL
\* parses and its protocol is http: or https:
validStart(seedUrl, universityName) ==
    /\ seedUrl # <<>>
    /\ universityName # <<>>
    /\ Parses(seedUrl)
    /\ protocolOf(seedUrl) \in {"http:", "https:"}

\* request.json() up to the first await after the checks (fs.mkdir)
PostReceive(r) ==
    /\ req[r].pc = "idle"
    /\ \E s \in SeedInputs, l \in Labels :
         LET id == deriveCrawlId(l) IN
         req' = [ req EXCEPT ![r] =
                    IF ~validStart(s, l)
                    THEN [ pc |-> "done", seedUrl |-> s, universityName |-> l,
                           status |-> 400, crawlId |-> <<>> ]
                    ELSE IF id \in activeCrawls
                    THEN [ pc |-> "done", seedUrl |-> s, universityName |-> l,
                           status |-> 409, crawlId |-> <<>> ]
                    ELSE [ pc |-> "mkdir", seedUrl |-> s, universityName |-> l,
                           status |-> 0, crawlId |-> id ] ]
    /\ UNCHANGED << envVars, activeCrawls, fsVars, crawlVars, getResp >>

\* await fs.mkdir(progressDir, {recursive: true}); fs.writeFile then opens the file with flag 'w'
PostMkdir(r) ==
    /\ req[r].pc = "mkdir"
    /\ dirs' = dirs \cup {req[r].crawlId}
    /\ req' = [ req EXCEPT ![r].pc = "open" ]
    /\ UNCHANGED << envVars, activeCrawls, progExists, progress, docExists, doc, lastWrite,
                    crawlVars, getResp >>

PostOpen(r) ==
    /\ req[r].pc = "open"
    /\ progExists' = progExists \cup {req[r].crawlId}
    /\ progress' = [ progress EXCEPT ![req[r].crawlId] = <<>> ]
    /\ req' = [ req EXCEPT ![r].pc = "write" ]
    /\ UNCHANGED << envVars, activeCrawls, dirs, docExists, doc, lastWrite, crawlVars, getResp >>

\* the initial record lands; activeCrawls.add, runCrawlerAsync is called (it runs
\* to its first await) and the 200 response with the crawlId is returned
PostWrite(r) ==
    /\ req[r].pc = "write"
    /\ LET id == req[r].crawlId
           rec == initialProgress(req[r].seedUrl, req[r].universityName)
       IN  /\ progress' = [ progress EXCEPT ![id] = <<rec>> ]
           /\ lastWrite' = [ lastWrite EXCEPT ![id] = <<[ op |-> "init", rec |-> rec ]>> ]
           /\ activeCrawls' = activeCrawls \cup {id}
    /\ cpc' = [ cpc EXCEPT ![r] = "start" ]
    /\ req' = [ req EXCEPT ![r].pc = "done", ![r].status = 200 ]
    /\ UNCHANGED << envVars, dirs, progExists, docExists, doc,
                    pagesProcessed, totalEnqueued, processedUrls, seen, pending, hnd, snap,
                    getResp, retryCount >>

\* ------------------------------------------------ GET /api/crawl/status
\* what the status route answers for a crawlId parameter in the current state
statusResponse(crawlId) ==
    IF crawlId = <<>> THEN [ code |-> 400, crawlId |-> crawlId, body |-> <<>> ]
    ELSE IF deriveCrawlId(crawlId) # crawlId THEN [ code |-> 400, crawlId |-> crawlId, body |-> <<>> ]
    ELSE IF crawlId \notin JobIds \/ crawlId \notin progExists
         THEN [ code |-> 404, crawlId |-> crawlId, body |-> <<>> ]
    ELSE IF progress[crawlId] = <<>> THEN [ code |-> 500, crawlId |-> crawlId, body |-> <<>> ]
    ELSE [ code |-> 200, crawlId |-> crawlId, body |-> progress[crawlId] ]

QueryIds == JobIds \cup { <<"U">> }

Get ==
    /\ \E q \in QueryIds : getResp' = statusResponse(q)
    /\ getResp' # getResp
    /\ UNCHANGED << envVars, req, activeCrawls, fsVars, crawlVars >>

\* ------------------------------------------------ runCrawlerAsync (route.ts)
IdOf(r) == req[r].crawlId

\* the request queue keys a request by its URL without one trailing slash
\* (enqueueLinks is called without a uniqueKey of its own)
uniqueKey(u) ==
    IF Len(u) > 1 /\ u[Len(u)] = "/" THEN SubSeq(u, 1, Len(u) - 1) ELSE u

SkippedNames == {"doc.pdf"}

\* transformRequestFunction: http URLs that match no skip pattern
transformRequest(u) == protocolOf(u) \in {"http:", "https:"} /\ u[Len(u)] \notin SkippedNames

InFlight(r) == { u \in AllPages : hnd[r][u].pc \notin {"idle", "done"} }

\* initSingleFile: ensureDirectory, then fs.writeFile opens the document with flag 'w'
InitSingleFileOpen(r) ==
    /\ cpc[r] = "start"
    /\ dirs' = dirs \cup {IdOf(r)}
    /\ docExists' = docExists \cup {IdOf(r)}
    /\ doc' = [ doc EXCEPT ![IdOf(r)] = <<>> ]
    /\ cpc' = [ cpc EXCEPT ![r] = "doc_write" ]
    /\ UNCHANGED << envVars, req, activeCrawls, progExists, progress, lastWrite,
                    pagesProcessed, totalEnqueued, processedUrls, seen, pending, hnd, snap,
                    getResp, retryCount >>

\* the placeholder lands at offset 0; the counters are set up and crawler.run([seedUrl]) starts
InitSingleFileWrite(r) ==
    /\ cpc[r] = "doc_write"
    /\ doc' = [ doc EXCEPT ![IdOf(r)] = <<TempHeader>> ]
    /\ pagesProcessed' = [ pagesProcessed EXCEPT ![r] = 0 ]
    /\ totalEnqueued' = [ totalEnqueued EXCEPT ![r] = TotalEnqueuedInit ]
    /\ processedUrls' = [ processedUrls EXCEPT ![r] = {} ]
    /\ seen' = [ seen EXCEPT ![r] = { uniqueKey(req[r].seedUrl) } ]
    /\ pending' = [ pending EXCEPT ![r] = { req[r].seedUrl } ]
    /\ cpc' = [ cpc EXCEPT ![r] = "run" ]
    /\ UNCHANGED << envVars, req, activeCrawls, dirs, progExists, progress, docExists, lastWrite,
                    hnd, snap, getResp, retryCount >>

\* no page ever fails
extractionThrows_never(u) == FALSE

\* page.goto or extractPageData throws for this page, on every attempt
extractionThrows(u) == u \in broken

\* a callback that never finds the URL in processedUrls
alreadyProcessed_never(r, u) == FALSE

\* processedUrls.has(pageData.url)
alreadyProcessed(r, u) == u \in processedUrls[r]

\* a request leaves the queue; extractPageData; onPageData up to its first await
StartHandler(r, u) ==
    /\ cpc[r] = "run"
    /\ u \in pending[r]
    /\ ~extractionThrows(u)
    /\ Cardinality(InFlight(r)) < maxConcurrency
    /\ pending' = [ pending EXCEPT ![r] = @ \ {u} ]
    /\ IF alreadyProcessed(r, u)
       THEN /\ hnd' = [ hnd EXCEPT ![r][u].pc = "enqueue" ]
            /\ UNCHANGED << processedUrls, pagesProcessed >>
       ELSE /\ processedUrls' = [ processedUrls EXCEPT ![r] = @ \cup {u} ]
            /\ pagesProcessed' = [ pagesProcessed EXCEPT ![r] = @ + 1 ]
            /\ hnd' = [ hnd EXCEPT ![r][u].pc = "append" ]
    /\ UNCHANGED << envVars, req, activeCrawls, fsVars, cpc, totalEnqueued, seen, snap,
                    getResp, retryCount >>

\* handlePage logs and rethrows before onPageData is called; the crawler
\* reclaims the request for another attempt
RetryRequest(r, u) ==
    /\ cpc[r] = "run"
    /\ u \in pending[r]
    /\ Cardinality(InFlight(r)) < maxConcurrency
    /\ extractionThrows(u)
    /\ retryCount[r][u] < maxRequestRetries
    /\ retryCount' = [ retryCount EXCEPT ![r][u] = @ + 1 ]
    /\ UNCHANGED << envVars, req, activeCrawls, fsVars, cpc, pagesProcessed, totalEnqueued,
                    processedUrls, seen, pending, hnd, snap, getResp >>

\* the attempt after the last retry throws: failedRequestHandler logs and the
\* request is marked handled
FailedRequestHandler(r, u) ==
    /\ cpc[r] = "run"
    /\ u \in pending[r]
    /\ Cardinality(InFlight(r)) < maxConcurrency
    /\ extractionThrows(u)
    /\ retryCount[r][u] = maxRequestRetries
    /\ pending' = [ pending EXCEPT ![r] = @ \ {u} ]
    /\ hnd' = [ hnd EXCEPT ![r][u].pc = "done" ]
    /\ UNCHANGED << envVars, req, activeCrawls, fsVars, cpc, pagesProcessed, totalEnqueued,
                    processedUrls, seen, snap, retryCount, getResp >>

\* fs.appendFile rejects: appendToSingleFile has no catch, so onPageData rejects,
\* handlePage logs and rethrows, and the crawler reclaims the request for another
\* attempt; updateProgress is not reached
AppendFails(r, u) ==
    /\ hnd[r][u].pc = "append"
    /\ u \in unwritable
    /\ retryCount[r][u] < maxRequestRetries
    /\ retryCount' = [ retryCount EXCEPT ![r][u] = @ + 1 ]
    /\ pending' = [ pending EXCEPT ![r] = @ \cup {u} ]
    /\ hnd' = [ hnd EXCEPT ![r][u] = IdleHandler ]
    /\ UNCHANGED << envVars, req, activeCrawls, fsVars, cpc, pagesProcessed, totalEnqueued,
                    processedUrls, seen, snap, getResp >>

\* fs.appendFile lands (flag 'a'); updateProgress is called with the current
\* counters and issues its readFile
AppendToSingleFile(r, u) ==
    /\ hnd[r][u].pc = "append"
    /\ u \notin unwritable
    /\ docExists' = docExists \cup {IdOf(r)}
    /\ doc' = [ doc EXCEPT ![IdOf(r)] = Append(@, formatPageSection(u, r)) ]
    /\ hnd' = [ hnd EXCEPT ![r][u] = [ pc |-> "upd_read", pp |-> pagesProcessed[r],
                                       te |-> totalEnqueued[r], rec |-> <<>> ] ]
    /\ UNCHANGED << envVars, req, activeCrawls, dirs, progExists, progress, lastWrite,
                    cpc, pagesProcessed, totalEnqueued, processedUrls, seen, pending, snap,
                    getResp, retryCount >>

\* readFile + JSON.parse: a missing or empty file throws into updateProgress's catch
Readable(id) == id \in progExists /\ progress[id] # <<>>

UpdateProgressRead(r, u) ==
    /\ hnd[r][u].pc = "upd_read"
    /\ IF Readable(IdOf(r))
       THEN hnd' = [ hnd EXCEPT ![r][u].pc = "upd_open", ![r][u].rec = progress[IdOf(r)] ]
       ELSE hnd' = [ hnd EXCEPT ![r][u].pc = "enqueue" ]
    /\ UNCHANGED << envVars, req, activeCrawls, fsVars, cpc, pagesProcessed, totalEnqueued,
                    processedUrls, seen, pending, snap, getResp, retryCount >>

UpdateProgressOpen(r, u) ==
    /\ hnd[r][u].pc = "upd_open"
    /\ progExists' = progExists \cup {IdOf(r)}
    /\ progress' = [ progress EXCEPT ![IdOf(r)] = <<>> ]
    /\ hnd' = [ hnd EXCEPT ![r][u].pc = "upd_write" ]
    /\ UNCHANGED << envVars, req, activeCrawls, dirs, docExists, doc, lastWrite,
                    cpc, pagesProcessed, totalEnqueued, processedUrls, seen, pending, snap,
                    getResp, retryCount >>

UpdateProgressWrite(r, u) ==
    /\ hnd[r][u].pc = "upd_write"
    /\ LET rec == updateRecord(hnd[r][u].rec[1], hnd[r][u].pp, hnd[r][u].te, u)
       IN  /\ progress' = [ progress EXCEPT ![IdOf(r)] = <<rec>> ]
           /\ lastWrite' = [ lastWrite EXCEPT ![IdOf(r)] = <<[ op |-> "update", rec |-> rec ]>> ]
    /\ hnd' = [ hnd EXCEPT ![r][u] = [ IdleHandler EXCEPT !.pc = "enqueue" ] ]
    /\ UNCHANGED << envVars, req, activeCrawls, dirs, progExists, docExists, doc,
                    cpc, pagesProcessed, totalEnqueued, processedUrls, seen, pending, snap,
                    getResp, retryCount >>

\* enqueueLinks({strategy: 'same-domain', transformRequestFunction}): one request per new key
EnqueueLinks(r, u) ==
    /\ hnd[r][u].pc = "enqueue"
    /\ LET cand == { v \in LinksOn(site, u) : transformRequest(v) /\ uniqueKey(v) \notin seen[r] }
           new == { v \in cand : v = CHOOSE w \in cand : uniqueKey(w) = uniqueKey(v) }
       IN  /\ seen' = [ seen EXCEPT ![r] = @ \cup { uniqueKey(v) : v \in new } ]
           /\ pending' = [ pending EXCEPT ![r] = @ \cup new ]
    /\ hnd' = [ hnd EXCEPT ![r][u] = [ IdleHandler EXCEPT !.pc = "done" ] ]
    /\ UNCHANGED << envVars, req, activeCrawls, fsVars, cpc, pagesProcessed, totalEnqueued,
                    processedUrls, snap, getResp, retryCount >>

\* crawler.run resolves when the queue is drained; finalizeSingleFile reads the document
FinalizeRead(r) ==
    /\ cpc[r] = "run"
    /\ pending[r] = {}
    /\ InFlight(r) = {}
    /\ ~finalizeFault
    /\ IF IdOf(r) \in docExists
       THEN /\ snap' = [ snap EXCEPT ![r] = doc[IdOf(r)] ]
            /\ cpc' = [ cpc EXCEPT ![r] = "fin_open" ]
       ELSE /\ cpc' = [ cpc EXCEPT ![r] = "cmp_read" ]
            /\ UNCHANGED snap
    /\ UNCHANGED << envVars, req, activeCrawls, fsVars, pagesProcessed, totalEnqueued,
                    processedUrls, seen, pending, hnd, getResp, retryCount >>

\* crawler.run resolves; fs.readFile in finalizeSingleFile rejects: its catch
\* logs, the document stays as it is and runCrawlerAsync goes on to completeProgress
FinalizeFails(r) ==
    /\ cpc[r] = "run"
    /\ pending[r] = {}
    /\ InFlight(r) = {}
    /\ finalizeFault
    /\ cpc' = [ cpc EXCEPT ![r] = "cmp_read" ]
    /\ UNCHANGED << envVars, req, activeCrawls, fsVars, pagesProcessed, totalEnqueued,
                    processedUrls, seen, pending, hnd, snap, getResp, retryCount >>

FinalizeOpen(r) ==
    /\ cpc[r] = "fin_open"
    /\ docExists' = docExists \cup {IdOf(r)}
    /\ doc' = [ doc EXCEPT ![IdOf(r)] = <<>> ]
    /\ cpc' = [ cpc EXCEPT ![r] = "fin_write" ]
    /\ UNCHANGED << envVars, req, activeCrawls, dirs, progExists, progress, lastWrite,
                    pagesProcessed, totalEnqueued, processedUrls, seen, pending, hnd, snap,
                    getResp, retryCount >>

\* the rewritten content lands at offset 0, over whatever was appended since the open
FinalizeWrite(r) ==
    /\ cpc[r] = "fin_write"
    /\ doc' = [ doc EXCEPT ![IdOf(r)] =
                  replaceTempHeader(snap[r], createHeader(req[r].universityName,
                                                          req[r].seedUrl, pagesProcessed[r])) ]
    /\ snap' = [ snap EXCEPT ![r] = <<>> ]
    /\ cpc' = [ cpc EXCEPT ![r] = "cmp_read" ]
    /\ UNCHANGED << envVars, req, activeCrawls, dirs, progExists, progress, docExists, lastWrite,
                    pagesProcessed, totalEnqueued, processedUrls, seen, pending, hnd,
                    getResp, retryCount >>

\* a runCrawlerAsync without the finally block
afterFinally_keepsId(active, crawlId) == active

\* finally { activeCrawls.delete(crawlId) }
afterFinally(active, crawlId) == active \ {crawlId}

\* completeProgress: readFile + JSON.parse; on a throw the catch logs, and the
\* finally block of runCrawlerAsync removes the crawlId
CompleteProgressRead(r) ==
    /\ cpc[r] = "cmp_read"
    /\ IF Readable(IdOf(r))
       THEN /\ snap' = [ snap EXCEPT ![r] = progress[IdOf(r)] ]
            /\ cpc' = [ cpc EXCEPT ![r] = "cmp_open" ]
            /\ UNCHANGED activeCrawls
       ELSE /\ cpc' = [ cpc EXCEPT ![r] = "done" ]
            /\ activeCrawls' = afterFinally(activeCrawls, IdOf(r))
            /\ UNCHANGED snap
    /\ UNCHANGED << envVars, req, fsVars, pagesProcessed, totalEnqueued,
                    processedUrls, seen, pending, hnd, getResp, retryCount >>

CompleteProgressOpen(r) ==
    /\ cpc[r] = "cmp_open"
    /\ progExists' = progExists \cup {IdOf(r)}
    /\ progress' = [ progress EXCEPT ![IdOf(r)] = <<>> ]
    /\ cpc' = [ cpc EXCEPT ![r] = "cmp_write" ]
    /\ UNCHANGED << envVars, req, activeCrawls, dirs, docExists, doc, lastWrite,
                    pagesProcessed, totalEnqueued, processedUrls, seen, pending, hnd, snap,
                    getResp, retryCount >>

\* the completed record lands; finally { activeCrawls.delete(crawlId) }
CompleteProgressWrite(r) ==
    /\ cpc[r] = "cmp_write"
    /\ LET rec == completeRecord(snap[r][1], pagesProcessed[r],
                                 getSingleFilePath(req[r].universityName))
       IN  /\ progress' = [ progress EXCEPT ![IdOf(r)] = <<rec>> ]
           /\ lastWrite' = [ lastWrite EXCEPT ![IdOf(r)] = <<[ op |-> "complete", rec |-> rec ]>> ]
    /\ snap' = [ snap EXCEPT ![r] = <<>> ]
    /\ activeCrawls' = afterFinally(activeCrawls, IdOf(r))
    /\ cpc' = [ cpc EXCEPT ![r] = "done" ]
    /\ UNCHANGED << envVars, req, dirs, progExists, docExists, doc,
                    pagesProcessed, totalEnqueued, processedUrls, seen, pending, hnd,
                    getResp, retryCount >>

\* initSingleFile throws (ensureDirectory or writeFile fails) or crawler.run
\* rejects while no handler is running: the catch block calls failProgress
CrawlThrows(r) ==
    /\ \/ cpc[r] = "start"
       \/ cpc[r] = "run" /\ InFlight(r) = {}
    /\ cpc' = [ cpc EXCEPT ![r] = "fail_read" ]
    /\ UNCHANGED << envVars, req, activeCrawls, fsVars, pagesProcessed, totalEnqueued,
                    processedUrls, seen, pending, hnd, snap, getResp, retryCount >>

\* failProgress: readFile + JSON.parse; on a throw its catch logs, then finally
FailProgressRead(r) ==
    /\ cpc[r] = "fail_read"
    /\ IF Readable(IdOf(r))
       THEN /\ snap' = [ snap EXCEPT ![r] = progress[IdOf(r)] ]
            /\ cpc' = [ cpc EXCEPT ![r] = "fail_open" ]
            /\ UNCHANGED activeCrawls
       ELSE /\ cpc' = [ cpc EXCEPT ![r] = "failed" ]
            /\ activeCrawls' = afterFinally(activeCrawls, IdOf(r))
            /\ UNCHANGED snap
    /\ UNCHANGED << envVars, req, fsVars, pagesProcessed, totalEnqueued,
                    processedUrls, seen, pending, hnd, getResp, retryCount >>

FailProgressOpen(r) ==
    /\ cpc[r] = "fail_open"
    /\ progExists' = progExists \cup {IdOf(r)}
    /\ progress' = [ progress EXCEPT ![IdOf(r)] = <<>> ]
    /\ cpc' = [ cpc EXCEPT ![r] = "fail_write" ]
    /\ UNCHANGED << envVars, req, activeCrawls, dirs, docExists, doc, lastWrite,
                    pagesProcessed, totalEnqueued, processedUrls, seen, pending, hnd, snap,
                    getResp, retryCount >>

\* the failed record lands; finally { activeCrawls.delete(crawlId) }
FailProgressWrite(r) ==
    /\ cpc[r] = "fail_write"
    /\ LET rec == failRecord(snap[r][1], "error")
       IN  /\ progress' = [ progress EXCEPT ![IdOf(r)] = <<rec>> ]
           /\ lastWrite' = [ lastWrite EXCEPT ![IdOf(r)] = <<[ op |-> "fail", rec |-> rec ]>> ]
    /\ snap' = [ snap EXCEPT ![r] = <<>> ]
    /\ activeCrawls' = afterFinally(activeCrawls, IdOf(r))
    /\ cpc' = [ cpc EXCEPT ![r] = "failed" ]
    /\ UNCHANGED << envVars, req, dirs, progExists, docExists, doc,
                    pagesProcessed, totalEnqueued, processedUrls, seen, pending, hnd,
                    getResp, retryCount >>

\* ------------------------------------------------------------ specification
Next ==
    \/ \E r \in Requests : PostReceive(r)
    \/ \E r \in Requests : PostMkdir(r)
    \/ \E r \in Requests : PostOpen(r)
    \/ \E r \in Requests : PostWrite(r)
    \/ Get
    \/ \E r \in Requests : InitSingleFileOpen(r)
    \/ \E r \in Requests : InitSingleFileWrite(r)
    \/ \E r \in Requests, u \in AllPages : StartHandler(r, u)
    \/ \E r \in Requests, u \in AllPages : RetryRequest(r, u)
    \/ \E r \in Requests, u \in AllPages : FailedRequestHandler(r, u)
    \/ \E r \in Requests, u \in AllPages : AppendFails(r, u)
    \/ \E r \in Requests, u \in AllPages : AppendToSingleFile(r, u)
    \/ \E r \in Requests, u \in AllPages : UpdateProgressRead(r, u)
    \/ \E r \in Requests, u \in AllPages : UpdateProgressOpen(r, u)
    \/ \E r \in Requests, u \in AllPages : UpdateProgressWrite(r, u)
    \/ \E r \in Requests, u \in AllPages : EnqueueLinks(r, u)
    \/ \E r \in Requests : FinalizeRead(r)
    \/ \E r \in Requests : FinalizeFails(r)
    \/ \E r \in Requests : FinalizeOpen(r)
    \/ \E r \in Requests : FinalizeWrite(r)
    \/ \E r \in Requests : CompleteProgressRead(r)
    \/ \E r \in Requests : CompleteProgressOpen(r)
    \/ \E r \in Requests : CompleteProgressWrite(r)
    \/ \E r \in Requests : CrawlThrows(r)
    \/ \E r \in Requests : FailProgressRead(r)
    \/ \E r \in Requests : FailProgressOpen(r)
    \/ \E r \in Requests : FailProgressWrite(r)

Spec == Init /\ [][Next]_vars


\* the steps of a crawl that the event loop takes whenever they are ready: every
\* continuation of runCrawlerAsync and of the page handlers, and the crawler
\* handing out the pending requests
CrawlStep ==
    \/ \E r \in Requests : InitSingleFileOpen(r)
    \/ \E r \in Requests : InitSingleFileWrite(r)
    \/ \E r \in Requests, u \in AllPages : StartHandler(r, u)
    \/ \E r \in Requests, u \in AllPages : RetryRequest(r, u)
    \/ \E r \in Requests, u \in AllPages : FailedRequestHandler(r, u)
    \/ \E r \in Requests, u \in AllPages : AppendFails(r, u)
    \/ \E r \in Requests, u \in AllPages : AppendToSingleFile(r, u)
    \/ \E r \in Requests, u \in AllPages : UpdateProgressRead(r, u)
    \/ \E r \in Requests, u \in AllPages : UpdateProgressOpen(r, u)
    \/ \E r \in Requests, u \in AllPages : UpdateProgressWrite(r, u)
    \/ \E r \in Requests, u \in AllPages : EnqueueLinks(r, u)
    \/ \E r \in Requests : FinalizeRead(r)
    \/ \E r \in Requests : FinalizeFails(r)
    \/ \E r \in Requests : FinalizeOpen(r)
    \/ \E r \in Requests : FinalizeWrite(r)
    \/ \E r \in Requests : CompleteProgressRead(r)
    \/ \E r \in Requests : CompleteProgressOpen(r)
    \/ \E r \in Requests : CompleteProgressWrite(r)
    \/ \E r \in Requests : FailProgressRead(r)
    \/ \E r \in Requests : FailProgressOpen(r)
    \/ \E r \in Requests : FailProgressWrite(r)

\* several start requests and their crawls, with no status query in between
NextRace ==
    \/ \E r \in Requests : PostReceive(r)
    \/ \E r \in Requests : PostMkdir(r)
    \/ \E r \in Requests : PostOpen(r)
    \/ \E r \in Requests : PostWrite(r)
    \/ \E r \in Requests : InitSingleFileOpen(r)
    \/ \E r \in Requests : InitSingleFileWrite(r)
    \/ \E r \in Requests, u \in AllPages : StartHandler(r, u)
    \/ \E r \in Requests, u \in AllPages : RetryRequest(r, u)
    \/ \E r \in Requests, u \in AllPages : FailedRequestHandler(r, u)
    \/ \E r \in Requests, u \in AllPages : AppendFails(r, u)
    \/ \E r \in Requests, u \in AllPages : AppendToSingleFile(r, u)
    \/ \E r \in Requests, u \in AllPages : UpdateProgressRead(r, u)
    \/ \E r \in Requests, u \in AllPages : UpdateProgressOpen(r, u)
    \/ \E r \in Requests, u \in AllPages : UpdateProgressWrite(r, u)
    \/ \E r \in Requests, u \in AllPages : EnqueueLinks(r, u)
    \/ \E r \in Requests : FinalizeRead(r)
    \/ \E r \in Requests : FinalizeFails(r)
    \/ \E r \in Requests : FinalizeOpen(r)
    \/ \E r \in Requests : FinalizeWrite(r)
    \/ \E r \in Requests : CompleteProgressRead(r)
    \/ \E r \in Requests : CompleteProgressOpen(r)
    \/ \E r \in Requests : CompleteProgressWrite(r)
    \/ \E r \in Requests : CrawlThrows(r)
    \/ \E r \in Requests : FailProgressRead(r)
    \/ \E r \in Requests : FailProgressOpen(r)
    \/ \E r \in Requests : FailProgressWrite(r)

SpecRace == InitRace /\ [][NextRace]_vars

\* one start request under a fair event loop
SpecFair == Init /\ [][Next]_vars /\ WF_vars(CrawlStep)

\* ------------------------------------------------ normalizeUrl on its own
NormTokens == {"/", "a"} \cup IndexNames

\* the pathnames new URL() can produce, up to MaxPathLen tokens
Pathnames ==
    UNION { { p \in [1..n -> NormTokens] : p[1] = "/" } : n \in 1..MaxPathLen }

NormalizeOnce ==
    /\ norm.step = "url"
    /\ norm' = [ norm EXCEPT !.step = "once", !.once = normalizeUrl(norm.url) ]
    /\ UNCHANGED << mainVars, sect, linksVars, cliVars >>

NormalizeTwice ==
    /\ norm.step = "once"
    /\ norm' = [ norm EXCEPT !.step = "twice", !.twice = normalizeUrl(norm.once) ]
    /\ UNCHANGED << mainVars, sect, linksVars, cliVars >>

InitNormalize ==
    /\ sect = NoSect
    /\ site = "solo"
    /\ broken = {}
    /\ unwritable = {}
    /\ finalizeFault = FALSE
    /\ \E p \in Pathnames : norm = [ NoNorm EXCEPT !.step = "url", !.url = <<"https:">> \o p ]
    /\ req = [ r \in Requests |-> Unused ]
    /\ InitFiles
    /\ InitCliOff

NextNormalize == NormalizeOnce \/ NormalizeTwice

SpecNormalize == InitNormalize /\ [][NextNormalize]_vars

\* ------------------------------------------------ isInternalUrl on its own
\* a hostname is a sequence of these pieces; "Example" is example written with
\* a capital letter, "not" and "example" next to each other read notexample
HostTokens == {"not", "example", "Example", ".", "edu", "com"}

\* no empty label in front or inside (a trailing dot is a hostname)
WellFormedHost(h) ==
    /\ h # <<>>
    /\ h[1] # "."
    /\ \A i \in 1..(Len(h) - 1) : ~(h[i] = "." /\ h[i + 1] = ".")

Hostnames ==
    UNION { { h \in [1..n -> HostTokens] : WellFormedHost(h) } : n \in 1..MaxHostLen }

BaseDomains ==
    { <<"example", ".", "edu">>, <<"Example", ".", "edu">>, <<"edu">>, <<"example", ".", "com">> }

\* the URL strings handed to isInternalUrl: https://<host>/, and two strings
\* new URL() rejects
HostUrl(h) == <<"https:", "//">> \o h \o <<"/">>

InternalInputs == { HostUrl(h) : h \in Hostnames } \cup { <<"junk">>, <<"https:", "//", "/">> }

\* new URL(url) does not throw
ParsesHost(url) ==
    /\ Len(url) >= 4
    /\ url[1] \in {"http:", "https:"}
    /\ url[2] = "//"
    /\ url[Len(url)] = "/"
    /\ WellFormedHost(SubSeq(url, 3, Len(url) - 1))

lowerHost(tok) == IF tok = "Example" THEN "example" ELSE tok

\* urlObj.hostname: the host of the URL, which the parser writes in lower case
hostnameOf(url) ==
    LET h == SubSeq(url, 3, Len(url) - 1) IN [ i \in 1..Len(h) |-> lowerHost(h[i]) ]

\* String.prototype.endsWith
endsWith(str, suffix) ==
    /\ Len(suffix) <= Len(str)
    /\ SubSeq(str, Len(str) - Len(suffix) + 1, Len(str)) = suffix

\* a suffix test without the dot in front of the base domain
dotSuffix_noDot(baseDomain) == baseDomain

\* '.' + baseDomain
dotSuffix(baseDomain) == <<".">> \o baseDomain

isInternalUrl(url, baseDomain) ==
    IF ~ParsesHost(url) THEN FALSE
    ELSE LET hostname == hostnameOf(url)
         IN  IF hostname = baseDomain THEN TRUE
             ELSE IF endsWith(hostname, dotSuffix(baseDomain)) THEN TRUE
             ELSE FALSE

IsInternalUrl ==
    /\ norm.step = "candidate"
    /\ norm' = [ step |-> "internal", url |-> norm.url, baseDomain |-> norm.baseDomain,
                 result |-> isInternalUrl(norm.url, norm.baseDomain) ]
    /\ UNCHANGED << mainVars, sect, linksVars, cliVars >>

InitInternal ==
    /\ sect = NoSect
    /\ site = "solo"
    /\ broken = {}
    /\ unwritable = {}
    /\ finalizeFault = FALSE
    /\ \E url \in InternalInputs, base \in BaseDomains :
         norm = [ step |-> "candidate", url |-> url, baseDomain |-> base ]
    /\ req = [ r \in Requests |-> Unused ]
    /\ InitFiles
    /\ InitCliOff

NextInternal == IsInternalUrl

SpecInternal == InitInternal /\ [][NextInternal]_vars

\* ------------------------------------ extractPageData and formatPageSection
MaxHeadingsShown == 10
ContentBudget == 5000
MaxLinksShown == 10
maxLength == 5000

\* what a rendered page holds: the numbers of h1, h2, h3 elements, the length
\* of its main text and the same-domain anchors, deduplicated and sorted
HeadingCounts == {0, 1, 11}
TextLengths == {0, 200, 5000, 5001}
LinkCounts == {0, 1, 11}
Titles == {"", "T"}

\* an array of n strings; a string of n characters is modelled by n
ArrayOf(n, x) == [ i \in 1..n |-> x ]

Renderings ==
    [ title : Titles, h1 : HeadingCounts, h2 : HeadingCounts, h3 : {0, 1},
      text : TextLengths, links : { ArrayOf(n, "link") : n \in LinkCounts } ]

\* extractPageData: the record handed to onPageData
extractPageData(url, page) ==
    [ url |-> url,
      title |-> page.title,
      headings |-> [ h1 |-> ArrayOf(page.h1, "h1"), h2 |-> ArrayOf(page.h2, "h2"),
                     h3 |-> ArrayOf(page.h3, "h3") ],
      mainText |-> page.text,
      internalLinks |-> page.links,
      crawledAt |-> "t" ]

Min(a, b) == IF a < b THEN a ELSE b

\* one entry of the section: which part, how much of it is shown, and whether
\* the note about the rest follows
Part(name, shown, more) == [ part |-> name, shown |-> shown, more |-> more ]

\* formatPageSection(pageData), part by part.  A property the object does not
\* have reads as undefined, which is falsy; pageData.headings is an object with
\* the properties h1, h2, h3, so its length is undefined as well.
formatPageSectionParts(pageData) ==
    <<Part("title", 1, FALSE), Part("url", 1, FALSE), Part("crawled", 1, FALSE)>>
    \o (IF "metaDescription" \in DOMAIN pageData /\ pageData.metaDescription # ""
        THEN <<Part("meta", 1, FALSE)>> ELSE <<>>)
    \o (IF /\ "headings" \in DOMAIN pageData
           /\ "length" \in DOMAIN pageData.headings
           /\ pageData.headings.length > 0
        THEN <<Part("headings", Min(pageData.headings.length, MaxHeadingsShown),
                    pageData.headings.length > MaxHeadingsShown)>>
        ELSE <<>>)
    \o (IF "mainContent" \in DOMAIN pageData /\ pageData.mainContent > 0
        THEN <<Part("content", Min(pageData.mainContent, ContentBudget),
                    pageData.mainContent > ContentBudget)>>
        ELSE <<>>)
    \o (IF "links" \in DOMAIN pageData /\ Len(pageData.links) > 0
        THEN LET internal == SelectSeq(pageData.links, LAMBDA l : l.isInternal)
             IN  IF Len(internal) > 0
                 THEN <<Part("links", Min(Len(internal), MaxLinksShown),
                             Len(internal) > MaxLinksShown)>>
                 ELSE <<>>
        ELSE <<>>)

\* the content part of formatMarkdown(pageData): the text up to maxLength
\* characters, followed by '...' when it was cut
formatMarkdownContent(pageData) ==
    IF "mainText" \in DOMAIN pageData /\ pageData.mainText > 0
    THEN <<Part("content", IF pageData.mainText > maxLength THEN maxLength
                           ELSE pageData.mainText,
                pageData.mainText > maxLength)>>
    ELSE <<>>

\* formatContentSection(mainText) of the HTML formatter
formatContentSection(mainText) ==
    IF mainText = 0 THEN <<>>
    ELSE <<Part("content", IF mainText > maxLength THEN maxLength ELSE mainText,
                mainText > maxLength)>>

ExtractPageData ==
    /\ sect.step = "page"
    /\ sect' = [ step |-> "data", page |-> sect.page,
                 pageData |-> extractPageData(Root, sect.page) ]
    /\ UNCHANGED << mainVars, norm, linksVars, cliVars >>

FormatPageSection ==
    /\ sect.step = "data"
    /\ sect' = [ step |-> "section", page |-> sect.page, pageData |-> sect.pageData,
                 section |-> formatPageSectionParts(sect.pageData) ]
    /\ UNCHANGED << mainVars, norm, linksVars, cliVars >>

FormatMarkdown ==
    /\ sect.step = "data"
    /\ sect' = [ step |-> "markdown", page |-> sect.page, pageData |-> sect.pageData,
                 section |-> formatMarkdownContent(sect.pageData) ]
    /\ UNCHANGED << mainVars, norm, linksVars, cliVars >>

FormatHtml ==
    /\ sect.step = "data"
    /\ sect' = [ step |-> "html", page |-> sect.page, pageData |-> sect.pageData,
                 section |-> formatContentSection(sect.pageData.mainText) ]
    /\ UNCHANGED << mainVars, norm, linksVars, cliVars >>

InitSection ==
    /\ \E page \in Renderings : sect = [ step |-> "page", page |-> page ]
    /\ site = "solo"
    /\ broken = {}
    /\ unwritable = {}
    /\ finalizeFault = FALSE
    /\ norm = NoNorm
    /\ req = [ r \in Requests |-> Unused ]
    /\ InitFiles
    /\ InitCliOff

NextSection == ExtractPageData \/ FormatPageSection \/ FormatMarkdown \/ FormatHtml

SpecSection == InitSection /\ [][NextSection]_vars

\* ------------------------------------------------------------ sanitizer.js
MaxFolderChars == 50
MaxFileChars == 100

\* /university|college|institute|of|the|and|&/gi
StopWords == {"university", "&"}

IsAlnum(ch) == ch \in {"u", "1", "a", "b", "index", "doc", "university", "unknown", "page"}

TokenLen(tok) ==
    CASE tok = "university" -> 10
      [] tok = "unknown" -> 7
      [] tok = "index" -> 5
      [] tok = "page" -> 4
      [] tok = "doc" -> 3
      [] OTHER -> 1

RECURSIVE CharLen(_)
CharLen(s) == IF s = <<>> THEN 0 ELSE TokenLen(Head(s)) + CharLen(Tail(s))

\* substring(0, n), for a cut that falls between two tokens
RECURSIVE TakeChars(_, _)
TakeChars(s, n) ==
    IF s = <<>> \/ TokenLen(Head(s)) > n THEN <<>>
    ELSE <<Head(s)>> \o TakeChars(Tail(s), n - TokenLen(Head(s)))

ReplaceStopWords(s) == [ i \in 1..Len(s) |-> IF s[i] \in StopWords THEN " " ELSE s[i] ]

\* .replace(/[^a-z0-9]+/g, '-')
RECURSIVE ReplaceNonAlnumRuns(_)
ReplaceNonAlnumRuns(s) ==
    IF s = <<>> THEN <<>>
    ELSE IF ~IsAlnum(Head(s))
         THEN IF Len(s) > 1 /\ ~IsAlnum(s[2])
              THEN ReplaceNonAlnumRuns(Tail(s))
              ELSE <<"-">> \o ReplaceNonAlnumRuns(Tail(s))
         ELSE <<Head(s)>> \o ReplaceNonAlnumRuns(Tail(s))

\* .replace(/-+/g, '-')
RECURSIVE CollapseHyphens(_)
CollapseHyphens(s) ==
    IF Len(s) < 2 THEN s
    ELSE IF s[1] = "-" /\ s[2] = "-" THEN CollapseHyphens(Tail(s))
         ELSE <<Head(s)>> \o CollapseHyphens(Tail(s))

\* .replace(/-+$/, '')
RECURSIVE TrimTrailingHyphens(_)
TrimTrailingHyphens(s) ==
    IF s # <<>> /\ s[Len(s)] = "-" THEN TrimTrailingHyphens(SubSeq(s, 1, Len(s) - 1)) ELSE s

RECURSIVE TrimLeadingHyphens(_)
TrimLeadingHyphens(s) ==
    IF s # <<>> /\ s[1] = "-" THEN TrimLeadingHyphens(Tail(s)) ELSE s

\* .replace(/^-+|-+$/g, '')
TrimHyphens(s) == TrimLeadingHyphens(TrimTrailingHyphens(s))

sanitizeUniversityName(name) ==
    IF name = <<>> THEN <<"unknown", "-", "university">>
    ELSE LET lower == MapLower(name)
             words == ReplaceStopWords(lower)
             hyphens == TrimHyphens(CollapseHyphens(ReplaceNonAlnumRuns(words)))
             cut == IF CharLen(hyphens) > MaxFolderChars
                    THEN TrimTrailingHyphens(TakeChars(hyphens, MaxFolderChars))
                    ELSE hyphens
         IN  IF cut = <<>> THEN <<"university">> ELSE cut

\* .replace(/^\/+|\/+$/g, '')
RECURSIVE StripLeadingSlashes(_)
StripLeadingSlashes(p) ==
    IF p # <<>> /\ p[1] = "/" THEN StripLeadingSlashes(Tail(p)) ELSE p

\* .replace(/\.[^.]+$/, '') on a name that ends with this token
StripExtension(tok) ==
    IF tok = "index.html" THEN "index" ELSE IF tok = "doc.pdf" THEN "doc" ELSE tok

sanitizeFilename(url) ==
    IF ~Parses(url) THEN <<"page", "-", "hash">>
    ELSE LET pathname == StripLeadingSlashes(StripTrailingSlashes(pathnameOf(url)))
         IN  IF pathname = <<>> THEN <<"index">>
             ELSE LET dashed == [ i \in 1..Len(pathname) |->
                                     IF pathname[i] = "/" THEN "-" ELSE pathname[i] ]
                      noext == [ dashed EXCEPT ![Len(dashed)] = StripExtension(@) ]
                      trimmed == TrimHyphens(CollapseHyphens(noext))
                      cut == IF CharLen(trimmed) > MaxFileChars
                             THEN TrimTrailingHyphens(TakeChars(trimmed, MaxFileChars))
                             ELSE trimmed
                  IN  IF cut = <<>> THEN <<"page">> ELSE cut

\* getOutputFilePath(baseDir, universityName, format, filename, extension)
getOutputFilePath(universityName, format, filename, extension) ==
    [ dir |-> universityName, format |-> format, name |-> filename, ext |-> extension ]

\* the path of a file of the model; from is the page whose data the file holds
PathOf(f) == [ dir |-> f.dir, format |-> f.format, name |-> f.name, ext |-> f.ext ]

\* fs.writeFile(filePath, content): the file at that path now holds this content
writeOutput(fs, filePath, from) ==
    { f \in fs : PathOf(f) # filePath }
    \cup { [ dir |-> filePath.dir, format |-> filePath.format, name |-> filePath.name,
             ext |-> filePath.ext, from |-> from ] }

\* ------------------------------------------------------ linksFormatter.js
MaxLinkCalls == 4
MaxLinksPerPage == 2

Range(f) == { f[i] : i \in DOMAIN f }

\* order of the first UTF-16 code units of the tokens
CodeRank(tok) ==
    CASE tok = "/" -> 1
      [] tok = "a" -> 2
      [] tok = "b" -> 3
      [] tok = "doc.pdf" -> 4
      [] tok = "ftp:" -> 5
      [] tok = "http:" -> 6
      [] tok = "https:" -> 7
      [] tok = "index.html" -> 8
      [] OTHER -> 9

\* the default comparison of Array.prototype.sort: by code units, a proper
\* prefix first
RECURSIVE StringLess(_, _)
StringLess(x, y) ==
    IF y = <<>> THEN FALSE
    ELSE IF x = <<>> THEN TRUE
    ELSE IF Head(x) = Head(y) THEN StringLess(Tail(x), Tail(y))
    ELSE CodeRank(Head(x)) < CodeRank(Head(y))

RECURSIVE InsertSorted(_, _)
InsertSorted(x, sorted) ==
    IF sorted = <<>> THEN <<x>>
    ELSE IF StringLess(x, Head(sorted)) THEN <<x>> \o sorted
    ELSE <<Head(sorted)>> \o InsertSorted(x, Tail(sorted))

RECURSIVE InsertionSort(_)
InsertionSort(links) ==
    IF links = <<>> THEN <<>> ELSE InsertSorted(Head(links), InsertionSort(Tail(links)))

\* Array.from(set) without the sort
sortLinks_insertionOrder(links) == links

\* Array.from(linksState.allLinks).sort()
sortLinks(links) == InsertionSort(links)

\* Set.prototype.add: a Set keeps its elements in insertion order
SetAdd(set, x) == IF x \in Range(set) THEN set ELSE Append(set, x)

RECURSIVE SetAddAll(_, _)
SetAddAll(set, xs) ==
    IF xs = <<>> THEN set ELSE SetAddAll(SetAdd(set, Head(xs)), Tail(xs))

\* initLinksAggregator that keeps the Set of the crawl before
initLinksState_keepsLinks(state, seedUrl, universityName) ==
    [ state EXCEPT !.seedUrl = seedUrl, !.universityName = universityName ]

initLinksState(state, seedUrl, universityName) ==
    [ allLinks |-> <<>>, seedUrl |-> seedUrl, universityName |-> universityName ]

addLinks(state, pageData) ==
    [ state EXCEPT !.allLinks = SetAddAll(SetAdd(@, pageData.url), pageData.internalLinks) ]

formatLinks(state) ==
    LET sortedLinks == sortLinks(state.allLinks)
    IN  [ written |-> TRUE, universityName |-> state.universityName,
          seedUrl |-> state.seedUrl, totalLinks |-> Len(sortedLinks), links |-> sortedLinks ]

LinkUrls == {Root, PageA, PageB}

LinkLists == UNION { [1..n -> LinkUrls] : n \in 0..MaxLinksPerPage }

\* the part of a PageData record that the links formatter reads
LinkPageData == [ url : LinkUrls, internalLinks : LinkLists ]

InitLinksAggregator ==
    /\ Len(linksLog) < MaxLinkCalls
    /\ \E l \in {<<"U">>, <<"u">>} : linksState' = initLinksState(linksState, Root, l)
    /\ linksLog' = Append(linksLog, "init")
    /\ added' = {}
    /\ UNCHANGED << mainVars, norm, sect, listing, cliVars >>

AddLinks ==
    /\ Len(linksLog) < MaxLinkCalls
    /\ \E pageData \in LinkPageData :
         /\ linksState' = addLinks(linksState, pageData)
         /\ added' = added \cup {pageData.url} \cup Range(pageData.internalLinks)
    /\ linksLog' = Append(linksLog, "add")
    /\ UNCHANGED << mainVars, norm, sect, listing, cliVars >>

\* saveLinks(pageData, options): addLinks, nothing is written
SaveLinks ==
    /\ Len(linksLog) < MaxLinkCalls
    /\ \E pageData \in LinkPageData :
         /\ linksState' = addLinks(linksState, pageData)
         /\ added' = added \cup {pageData.url} \cup Range(pageData.internalLinks)
    /\ linksLog' = Append(linksLog, "save")
    /\ UNCHANGED << mainVars, norm, sect, listing, cliVars >>

\* finalizeLinks: formatLinks() goes to all-links.json, formatLinksAsText() to all-links.txt
FinalizeLinks ==
    /\ Len(linksLog) < MaxLinkCalls
    /\ listing' = formatLinks(linksState)
    /\ linksLog' = Append(linksLog, "finalize")
    /\ UNCHANGED << mainVars, norm, sect, linksState, added, cliVars >>

ResetLinksAggregator ==
    /\ Len(linksLog) < MaxLinkCalls
    /\ linksState' = EmptyLinks
    /\ linksLog' = Append(linksLog, "reset")
    /\ added' = {}
    /\ UNCHANGED << mainVars, norm, sect, listing, cliVars >>

InitLinks ==
    /\ site = "solo"
    /\ broken = {}
    /\ unwritable = {}
    /\ finalizeFault = FALSE
    /\ norm = NoNorm
    /\ sect = NoSect
    /\ req = [ r \in Requests |-> Unused ]
    /\ InitFiles
    /\ InitCliOff

NextLinks ==
    \/ InitLinksAggregator
    \/ AddLinks
    \/ SaveLinks
    \/ FinalizeLinks
    \/ ResetLinksAggregator

SpecLinks == InitLinks /\ [][NextLinks]_vars

\* ------------------------------------------- the command-line crawl (index.js)
MaxFormats == 2

\* the labels typed at the prompt (at least 2 characters)
CliLabels == { <<"u", "1">>, <<"U", " ", "university">> }

\* validateFormats keeps every valid entry of the comma-separated input, in order
FormatSelections == UNION { [1..n -> Formats] : n \in 1..MaxFormats }

\* at most one format whose save goes wrong: it throws, or writeOutput cannot
\* write and returns false
FaultMaps ==
    { [ f \in Formats |-> "none" ] }
    \cup { [ f \in Formats |-> IF f = g THEN k ELSE "none" ] :
             g \in {"json", "markdown"}, k \in {"throws", "unwritten"} }

Extension(format) == IF format = "json" THEN ".json" ELSE ".md"

\* [...new Set(internalLinks)].sort()
RECURSIVE SortedSeq(_)
SortedSeq(S) ==
    IF S = {} THEN <<>>
    ELSE LET m == CHOOSE x \in S : \A y \in S \ {x} : StringLess(x, y)
         IN  <<m>> \o SortedSeq(S \ {m})

extractInternalLinks(s, u) ==
    SortedSeq({ v \in LinksOn(s, u) : protocolOf(v) \in {"http:", "https:"} })

pageDataOf(s, u) ==
    extractPageData(u, [ title |-> "T", h1 |-> 1, h2 |-> 0, h3 |-> 0, text |-> 200,
                         links |-> extractInternalLinks(s, u) ])

HasLinksFormat == "links" \in Range(cli.selectedFormats)

CliInFlight == { u \in AllPages : cliH[u].pc \in {"save", "enqueue"} }

\* a save loop that gives up at the first save that throws
afterSave_stopsOnThrow(i, n, outcome) ==
    IF outcome = "throws" \/ i >= n THEN 0 ELSE i + 1

\* for (const formatName of selectedFormats): the index of the next entry, 0 after the last
afterSave(i, n, outcome) == IF i >= n THEN 0 ELSE i + 1

\* crawl(userConfig) up to runCrawler
CliStart ==
    /\ cli.pc = "config"
    /\ cli' = [ cli EXCEPT !.pc = "run", !.seen = { uniqueKey(cli.seedUrl) },
                           !.pending = { cli.seedUrl } ]
    /\ IF HasLinksFormat
       THEN linksState' = initLinksState(linksState, cli.seedUrl, cli.universityName)
       ELSE UNCHANGED linksState
    /\ UNCHANGED << mainVars, norm, sect, linksLog, added, listing, cliH, files, saveFault >>

\* handlePage: extractPageData, then onPageData up to the first save
CliHandlePage(u) ==
    /\ cli.pc = "run"
    /\ u \in cli.pending
    /\ Cardinality(CliInFlight) < maxConcurrency
    /\ ~extractionThrows(u)
    /\ cli' = [ cli EXCEPT !.pending = @ \ {u}, !.pagesProcessed = @ + 1 ]
    /\ cliH' = [ cliH EXCEPT ![u] = [ pc |-> "save", i |-> 1,
                                      pageData |-> <<pageDataOf(site, u)>>, saved |-> <<>> ] ]
    /\ UNCHANGED << mainVars, norm, sect, linksVars, files, saveFault >>

\* one turn of the loop: formatter.save(pageData, options) inside try/catch
CliSave(u) ==
    /\ cliH[u].pc = "save"
    /\ LET format == cli.selectedFormats[cliH[u].i]
           outcome == saveFault[format]
           pageData == cliH[u].pageData[1]
           next == afterSave(cliH[u].i, Len(cli.selectedFormats), outcome)
           filePath == getOutputFilePath(sanitizeUniversityName(cli.universityName), format,
                                         sanitizeFilename(pageData.url), Extension(format))
       IN  /\ cliH' = [ cliH EXCEPT ![u].saved = Append(@, format),
                                    ![u].i = next,
                                    ![u].pc = IF next = 0 THEN "enqueue" ELSE "save" ]
           /\ IF format = "links"
              THEN /\ linksState' = addLinks(linksState, pageData)
                   /\ UNCHANGED << files, cli >>
              ELSE /\ files' = IF outcome = "none"
                                 THEN writeOutput(files, filePath, pageData.url)
                                 ELSE files
                   /\ cli' = [ cli EXCEPT !.filesSaved =
                                  IF outcome = "throws" THEN @ ELSE @ + 1 ]
                   /\ UNCHANGED linksState
    /\ UNCHANGED << mainVars, norm, sect, linksLog, added, listing, saveFault >>

CliEnqueueLinks(u) ==
    /\ cliH[u].pc = "enqueue"
    /\ LET cand == { v \in LinksOn(site, u) :
                       transformRequest(v) /\ uniqueKey(v) \notin cli.seen }
           new == { v \in cand : v = CHOOSE w \in cand : uniqueKey(w) = uniqueKey(v) }
       IN  cli' = [ cli EXCEPT !.seen = @ \cup { uniqueKey(v) : v \in new },
                               !.pending = @ \cup new ]
    /\ cliH' = [ cliH EXCEPT ![u].pc = "done" ]
    /\ UNCHANGED << mainVars, norm, sect, linksVars, files, saveFault >>

\* every attempt at the page throws: failedRequestHandler logs
CliPageFails(u) ==
    /\ cli.pc = "run"
    /\ u \in cli.pending
    /\ Cardinality(CliInFlight) < maxConcurrency
    /\ extractionThrows(u)
    /\ cli' = [ cli EXCEPT !.pending = @ \ {u} ]
    /\ cliH' = [ cliH EXCEPT ![u].pc = "failed" ]
    /\ UNCHANGED << mainVars, norm, sect, linksVars, files, saveFault >>

\* runCrawler resolves; finalizeLinks if 'links' was selected
CliFinalize ==
    /\ cli.pc = "run"
    /\ cli.pending = {}
    /\ CliInFlight = {}
    /\ cli' = [ cli EXCEPT !.pc = "done" ]
    /\ IF HasLinksFormat
       THEN LET dir == sanitizeUniversityName(cli.universityName)
            IN  /\ listing' = formatLinks(linksState)
                /\ files' = writeOutput(
                               writeOutput(files,
                                   getOutputFilePath(dir, "links", <<"all-links">>, ".json"),
                                   NoUrl),
                               getOutputFilePath(dir, "links", <<"all-links">>, ".txt"), NoUrl)
       ELSE UNCHANGED << listing, files >>
    /\ UNCHANGED << mainVars, norm, sect, linksState, linksLog, added, cliH, saveFault >>

InitCli ==
    /\ site \in CliSiteNames
    /\ broken \in { {}, {Root}, {PageA} } \cap SUBSET PagesOf(site)
    /\ unwritable = {}
    /\ finalizeFault = FALSE
    /\ norm = NoNorm
    /\ sect = NoSect
    /\ req = [ r \in Requests |-> Unused ]
    /\ InitFiles
    /\ \E l \in CliLabels, fs \in FormatSelections :
         cli = [ NoCli EXCEPT !.pc = "config", !.seedUrl = Root, !.universityName = l,
                              !.selectedFormats = fs ]
    /\ cliH = [ u \in AllPages |-> IdleCliHandler ]
    /\ files = {}
    /\ saveFault \in FaultMaps

NextCli ==
    \/ CliStart
    \/ \E u \in AllPages : CliHandlePage(u)
    \/ \E u \in AllPages : CliSave(u)
    \/ \E u \in AllPages : CliEnqueueLinks(u)
    \/ \E u \in AllPages : CliPageFails(u)
    \/ CliFinalize

SpecCli == InitCli /\ [][NextCli]_vars

\* ====================================================================== claims

Launched(r) == cpc[r] # "none"
Ended(r) == cpc[r] \in {"done", "failed"}
Running(r) == Launched(r) /\ ~Ended(r)

Sections(content) == SelectSeq(content, LAMBDA b : b.kind = "section")

HasBlock(content, b) == \E i \in 1..Len(content) : content[i] = b

\* the append of crawl r for page u has completed
Appended(r, u) ==
    /\ u \notin unwritable
    /\ hnd[r][u].pc \in {"upd_read", "upd_open", "upd_write", "enqueue", "done"}

\* C1: once the last record written to a job's progress file is completed or
\* failed, no later write of updateProgress, completeProgress or failProgress
\* changes it.
C1_TerminalRecordIsFinal ==
    [][ \A id \in JobIds :
          ( /\ lastWrite[id] # <<>>
            /\ Terminal(lastWrite[id][1].rec)
            /\ lastWrite'[id] # lastWrite[id] )
          => lastWrite'[id][1].op = "init" ]_vars

\* C2: during one crawl, the pagesProcessed that updateProgress writes is never
\* lower than the pagesProcessed of the record written before it.
C2_PagesProcessedNeverDecreases ==
    [][ \A id \in JobIds :
          ( /\ lastWrite[id] # <<>>
            /\ lastWrite'[id] # lastWrite[id]
            /\ lastWrite'[id][1].op = "update" )
          => lastWrite'[id][1].rec.pagesProcessed >= lastWrite[id][1].rec.pagesProcessed ]_vars

\* C3: at most one crawl per derived job identifier is running at any time.
C3_OneActiveCrawlPerId ==
    \A r1, r2 \in Requests :
        (Running(r1) /\ Running(r2) /\ IdOf(r1) = IdOf(r2)) => r1 = r2

\* C4: two URLs that normalizeUrl maps to the same canonical string are
\* processed at most once between them in one crawl (one pagesProcessed
\* increment, one section).
C4_OneEntryPerCanonicalUrl ==
    \A r \in Requests : \A u, v \in processedUrls[r] :
        normalizeUrl(u) = normalizeUrl(v) => u = v

\* C5: normalizeUrl is idempotent: normalizing a normalized URL changes nothing.
C5_NormalizeIdempotent ==
    norm.step = "twice" => norm.twice = norm.once

\* C6: a crawl without failure of a site of N pages with N distinct canonical
\* URLs ends with the record completed, pagesProcessed = totalEnqueued = N, and
\* a document of the final header reporting N pages followed by N sections.
DistinctPages(s) ==
    \A u, v \in PagesOf(s) : normalizeUrl(u) = normalizeUrl(v) => u = v

C6_EndToEndCounts ==
    \A r \in Requests :
        (/\ cpc[r] = "done" /\ DistinctPages(site)
         /\ broken = {} /\ unwritable = {} /\ ~finalizeFault) =>
            LET id == IdOf(r)
                N == Cardinality(PagesOf(site))
            IN  /\ Readable(id)
                /\ progress[id][1].status = "completed"
                /\ progress[id][1].pagesProcessed = N
                /\ progress[id][1].totalEnqueued = N
                /\ id \in docExists
                /\ Len(doc[id]) = N + 1
                /\ doc[id][1] = createHeader(req[r].universityName, req[r].seedUrl, N)
                /\ Len(Sections(doc[id])) = N
                /\ \A u \in PagesOf(site) : HasBlock(doc[id], formatPageSection(u, r))

C6_Witness ==
    /\ site = "plain"
    /\ broken = {}
    /\ cpc[1] = "done"
    /\ Readable(IdOf(1))
    /\ progress[IdOf(1)][1].pagesProcessed = 3
    /\ Len(Sections(doc[IdOf(1)])) = 3

\* C7: once finalizeSingleFile of a crawl has completed, every section the crawl
\* appended is present in the consolidated document.
C7_NoSectionLost ==
    \A r \in Requests :
        cpc[r] = "cmp_read" =>
            \A u \in AllPages :
                Appended(r, u) => HasBlock(doc[IdOf(r)], formatPageSection(u, r))

\* C8: a status query for a job identifier is answered with a complete record
\* that a progress operation wrote or with not_found, never with a read error.
C8_StatusQueryNeverFails ==
    (getResp.code # 0 /\ getResp.crawlId # <<>> /\ getResp.crawlId \in JobIds) =>
        \/ getResp.code = 404
        \/ getResp.code = 200 /\ Len(getResp.body) = 1

\* C9: a start request with a missing, unparsable or non-http(s) seedUrl or an
\* empty label is answered 400 and none of its steps creates a directory, a
\* progress record or a document, adds to the active set or launches a crawl.
BadInput(q) ==
    \/ q.seedUrl = SeedMissing
    \/ ~Parses(q.seedUrl)
    \/ protocolOf(q.seedUrl) \notin {"http:", "https:"}
    \/ q.universityName = <<>>

C9_InvalidStartCreatesNothing ==
    [][ \A r \in Requests :
          (req'[r] # req[r] /\ req'[r].pc # "idle" /\ BadInput(req'[r])) =>
              /\ req'[r].pc = "done"
              /\ req'[r].status = 400
              /\ UNCHANGED << dirs, progExists, progress, docExists, doc, activeCrawls, cpc >> ]_vars

C9_Witness ==
    \E r \in Requests :
        /\ req[r].pc = "done"
        /\ req[r].status = 400
        /\ BadInput(req[r])
        /\ req[r].seedUrl = SeedFtp
        /\ req[r].universityName # <<>>
        /\ deriveCrawlId(req[r].universityName) \notin dirs
        /\ cpc[r] = "none"

\* C10: for every accepted start request, a status query with the returned
\* identifier is answered with that job's progress record (status starting or
\* later), not with not_found, an identifier error or a read error.
C10_AcceptedStartIsQueryable ==
    \A r \in Requests :
        (req[r].pc = "done" /\ req[r].status = 200) =>
            /\ statusResponse(req[r].crawlId).code = 200
            /\ statusResponse(req[r].crawlId).body[1].seedUrl = req[r].seedUrl

C12_CompleteAndInitFields ==
    [][ \A r \in Requests :
          /\ (cpc[r] = "cmp_write" /\ cpc'[r] = "done") =>
                LET id == IdOf(r) IN
                /\ lastWrite[id] # <<>>
                /\ Len(progress'[id]) = 1
                /\ LET old == lastWrite[id][1].rec
                       new == progress'[id][1]
                   IN  /\ new.status = "completed"
                       /\ new.endTime # NullStr
                       /\ new.currentUrl = NoUrl
                       /\ new.pagesProcessed = pagesProcessed[r]
                       /\ new.outputFile = getSingleFilePath(req[r].universityName)
                       /\ new.startTime = old.startTime
                       /\ new.seedUrl = old.seedUrl
                       /\ new.universityName = old.universityName
                       /\ new.error = old.error
          /\ (req[r].pc = "write" /\ req'[r].pc = "done") =>
                LET id == IdOf(r) IN
                /\ Len(progress'[id]) = 1
                /\ LET new == progress'[id][1]
                   IN  /\ new.status = "starting"
                       /\ new.pagesProcessed = 0
                       /\ new.totalEnqueued = 0
                       /\ new.currentUrl = req[r].seedUrl
                       /\ new.seedUrl = req[r].seedUrl
                       /\ new.endTime = NullStr
                       /\ new.error = NullStr
                       /\ new.outputFile = NullPath ]_vars

C12_Witness ==
    /\ cpc[1] = "done"
    /\ lastWrite[IdOf(1)] # <<>>
    /\ lastWrite[IdOf(1)][1].op = "complete"
    /\ lastWrite[IdOf(1)][1].rec.pagesProcessed >= 2
    /\ lastWrite[IdOf(1)][1].rec.startTime = "t"

\* C13: a page that fails on every attempt is never processed (no section, no
\* pagesProcessed increment), never turns the record into failed and does not
\* stop the crawl: the crawl ends completed with every other page that can be
\* reached through the pages that did not fail.
ReachStep(S) ==
    S \cup { v \in PagesOf(site) :
               \E u \in S \ broken : v \in LinksOn(site, u) /\ transformRequest(v) }

RECURSIVE ReachN(_, _)
ReachN(S, n) == IF n = 0 THEN S ELSE ReachN(ReachStep(S), n - 1)

Reached(r) == ReachN({req[r].seedUrl}, Cardinality(AllPages))

C13_FailedPageDoesNotStopCrawl ==
    \A r \in Requests :
        Launched(r) =>
            LET id == IdOf(r)
                ok == Reached(r) \ broken
            IN  /\ \A u \in broken :
                      /\ u \notin processedUrls[r]
                      /\ ~HasBlock(doc[id], formatPageSection(u, r))
                /\ (Readable(id) /\ progress[id][1].status = "failed") => cpc[r] = "failed"
                /\ cpc[r] = "done" =>
                      /\ Readable(id)
                      /\ progress[id][1].status = "completed"
                      /\ progress[id][1].pagesProcessed = Cardinality(ok)
                      /\ processedUrls[r] = ok
                      /\ \A u \in ok \ unwritable :
                            HasBlock(doc[id], formatPageSection(u, r))

C13_Witness ==
    /\ site = "plain"
    /\ broken = {PageA}
    /\ cpc[1] = "done"
    /\ retryCount[1][PageA] = maxRequestRetries
    /\ hnd[1][PageA].pc = "done"
    /\ Readable(IdOf(1))
    /\ progress[IdOf(1)][1].status = "completed"
    /\ progress[IdOf(1)][1].pagesProcessed = 2

\* C16: after initSingleFile and the appends, finalizeSingleFile puts the header
\* computed from the label, the seed URL and pagesProcessed in the place of the
\* placeholder and leaves the appended sections as they were, in append order;
\* the finalized document holds no placeholder and starts with that header.
C16_FinalizeReplacesPlaceholder ==
    [][ \A r \in Requests :
          (cpc[r] = "fin_write" /\ cpc'[r] = "cmp_read" /\ snap[r] # <<>>
             /\ snap[r][1] = TempHeader) =>
              LET new == doc'[IdOf(r)]
                  header == createHeader(req[r].universityName, req[r].seedUrl,
                                         pagesProcessed[r])
              IN  /\ new = <<header>> \o Tail(snap[r])
                  /\ \A i \in 1..Len(new) : new[i].kind # "temp" ]_vars

\* C15: the section formatted from the PageData of the extractor carries the
\* title and the metadata and, whenever they are not empty, the page's headings
\* (at most MaxHeadingsShown, with a note when there are more), its main text
\* (up to ContentBudget characters) and its internal links (at most
\* MaxLinksShown).
HasPart(section, name, shown) ==
    \E i \in 1..Len(section) : section[i].part = name /\ section[i].shown = shown

C15_SectionCarriesPageData ==
    sect.step = "section" =>
        LET page == sect.page
            headings == page.h1 + page.h2 + page.h3
        IN  /\ HasPart(sect.section, "title", 1)
            /\ HasPart(sect.section, "url", 1)
            /\ HasPart(sect.section, "crawled", 1)
            /\ headings > 0 => HasPart(sect.section, "headings", Min(headings, MaxHeadingsShown))
            /\ page.text > 0 => HasPart(sect.section, "content", Min(page.text, ContentBudget))
            /\ Len(page.links) > 0 =>
                  HasPart(sect.section, "links", Min(Len(page.links), MaxLinksShown))

\* C17: the listing that finalizeLinks produces is in ascending order without
\* duplicates, and its totalLinks is the number of distinct URLs (page URLs
\* and internal links) handed to addLinks or saveLinks since the last init.
Ascending(links) ==
    \A i \in 1..(Len(links) - 1) : StringLess(links[i], links[i + 1])

Called(op) == Len(linksLog') = Len(linksLog) + 1 /\ linksLog'[Len(linksLog')] = op

C17_ListingSortedAndDistinct ==
    [][ Called("finalize") =>
          /\ listing'.written
          /\ Ascending(listing'.links)
          /\ Range(listing'.links) = added
          /\ listing'.totalLinks = Cardinality(added)
          /\ Len(listing'.links) = listing'.totalLinks ]_vars

C17_Witness ==
    /\ linksLog # <<>>
    /\ linksLog[Len(linksLog)] = "finalize"
    /\ linksState.allLinks = <<PageB, Root, PageA>>
    /\ listing.links = <<Root, PageA, PageB>>
    /\ listing.totalLinks = 3

\* C19: addLinks and saveLinks never remove a URL from the aggregate, init and
\* reset empty it, and a finalized listing holds only URLs added since the
\* last init or reset.
C19_AggregateGrowsUntilReset ==
    [][ /\ (Called("add") \/ Called("save")) =>
              Range(linksState.allLinks) \subseteq Range(linksState'.allLinks)
        /\ (Called("init") \/ Called("reset")) => linksState'.allLinks = <<>>
        /\ Called("finalize") =>
              /\ linksState' = linksState
              /\ Range(listing'.links) \subseteq added ]_vars

C19_Witness ==
    /\ Len(linksLog) = 4
    /\ linksLog[1] = "add"
    /\ linksLog[2] = "init"
    /\ linksLog[3] = "save"
    /\ linksLog[4] = "finalize"
    /\ listing.links = <<PageA>>

\* C14: in the command-line crawl, for each page the save of every selected
\* formatter is attempted exactly once, whether or not an earlier save for the
\* page threw or could not write; the page callback still returns, the
\* PageData is as extracted, and the crawl goes on to every other page.
Attempts(u, f) == Cardinality({ i \in 1..Len(cliH[u].saved) : cliH[u].saved[i] = f })

CliReached == ReachN({cli.seedUrl}, Cardinality(AllPages))

CallbackReturned(u) == cliH[u].pc \in {"enqueue", "done"}

C14_EachFormatSavedOnce ==
    /\ \A u \in AllPages :
          /\ CallbackReturned(u) =>
                /\ \A f \in Range(cli.selectedFormats) : Attempts(u, f) = 1
                /\ cliH[u].pageData = <<pageDataOf(site, u)>>
          /\ cliH[u].pc = "failed" => u \in broken
    /\ cli.pc = "done" => \A u \in CliReached \ broken : cliH[u].pc = "done"

\* C14, amended: the save of every entry of the selection is attempted exactly
\* once per page, in the order of the selection, whatever the earlier saves for
\* the page did; a format named twice in the selection is saved twice.
C14_EachEntrySavedOnce ==
    /\ \A u \in AllPages :
          /\ cliH[u].pc = "save" =>
                cliH[u].saved = SubSeq(cli.selectedFormats, 1, cliH[u].i - 1)
          /\ CallbackReturned(u) =>
                /\ cliH[u].saved = cli.selectedFormats
                /\ cliH[u].pageData = <<pageDataOf(site, u)>>
          /\ cliH[u].pc = "failed" => u \in broken
    /\ cli.pc = "done" =>
          /\ \A u \in CliReached \ broken : cliH[u].pc = "done"
          /\ cli.pagesProcessed = Cardinality(CliReached \ broken)

C14_Witness ==
    /\ cli.pc = "done"
    /\ broken = {}
    /\ cli.selectedFormats = <<"json", "markdown">>
    /\ saveFault["json"] = "throws"
    /\ \A u \in PagesOf(site) : cliH[u].saved = <<"json", "markdown">>
    /\ Cardinality(files) = 3
    /\ cli.filesSaved = 3

\* C18: from its initialization on the links aggregate of a crawl holds the
\* seed URL, and at finalize it holds the seed URL, the URL of every processed
\* page and every internal link of those pages, and nothing else.
ProcessedByCli == { u \in AllPages : cliH[u].saved # <<>> }

C18_AggregateHoldsSeedAndPages ==
    (HasLinksFormat /\ cli.pc \in {"run", "done"}) =>
        /\ cli.seedUrl \in Range(linksState.allLinks)
        /\ cli.pc = "done" =>
              /\ listing.written
              /\ Range(listing.links) =
                    {cli.seedUrl} \cup ProcessedByCli
                    \cup UNION { Range(extractInternalLinks(site, u)) : u \in ProcessedByCli }

\* C20: every artifact of a job is written under the directory named by the
\* job identifier, the directory of the progress record and of the
\* consolidated document.
C20_OneJobDirectory ==
    \A f \in files : f.dir = deriveCrawlId(cli.universityName)

\* C25: in the single-file pipeline a failure of appendToSingleFile for a page
\* is swallowed: whatever the append does, the page handler goes on to the
\* progress update of the page, and the request is not retried.
C25_AppendFailureSwallowed ==
    [][ \A r \in Requests, u \in AllPages :
          (hnd[r][u].pc = "append" /\ hnd'[r][u].pc # "append") =>
              /\ hnd'[r][u].pc = "upd_read"
              /\ retryCount'[r][u] = retryCount[r][u] ]_vars

\* C26: in the single-file pipeline every page URL is counted and appended at
\* most once, whatever the interleaving of the page handlers and however often
\* the handler of a URL is run again: processedUrls only grows, the counter
\* grows by one exactly when a URL enters processedUrls, a handler reaches the
\* append only for a URL that was not in processedUrls, and every section that
\* is appended comes from such a handler.
C26_CountedAndAppendedOnce ==
    [][ \A r \in Requests :
          cpc[r] = "run" =>
              /\ processedUrls[r] \subseteq processedUrls'[r]
              /\ pagesProcessed'[r] - pagesProcessed[r]
                    = Cardinality(processedUrls'[r] \ processedUrls[r])
              /\ pagesProcessed'[r] = Cardinality(processedUrls'[r])
              /\ \A u \in AllPages :
                    (hnd[r][u].pc # "append" /\ hnd'[r][u].pc = "append") =>
                        u \notin processedUrls[r] /\ u \in processedUrls'[r]
              /\ Len(Sections(doc'[IdOf(r)])) > Len(Sections(doc[IdOf(r)])) =>
                    \E u \in AllPages :
                        /\ hnd[r][u].pc = "append" /\ hnd'[r][u].pc # "append"
                        /\ doc'[IdOf(r)] = Append(doc[IdOf(r)], formatPageSection(u, r)) ]_vars

\* the handler of one page has run a second time after its append failed, while
\* the handler of another page is in flight and all three pages are counted
C26_Witness ==
    /\ site = "plain"
    /\ unwritable = {PageA}
    /\ retryCount[1][PageA] = 1
    /\ hnd[1][PageA].pc = "done"
    /\ hnd[1][PageB].pc \in {"append", "upd_read", "upd_open", "upd_write"}
    /\ pagesProcessed[1] = 3
    /\ Len(Sections(doc[IdOf(1)])) = 1

\* C28: after finalizeSingleFile the Pages Crawled number of the header equals
\* the number of page sections in the consolidated document.
C28_HeaderCountsSections ==
    \A r \in Requests :
        (cpc[r] = "done" /\ IdOf(r) \in docExists) =>
            LET content == doc[IdOf(r)]
            IN  \A i \in 1..Len(content) :
                    content[i].kind = "header" => content[i].pages = Len(Sections(content))

\* C22: when a crawl completes after a frontier entry failed terminally, the
\* final progress record shows it: its pagesProcessed is strictly lower than
\* its totalEnqueued.
FailedTerminally(r) ==
    { u \in broken : retryCount[r][u] = maxRequestRetries /\ hnd[r][u].pc = "done" }

C22_FailureVisibleInFinalRecord ==
    \A r \in Requests :
        (/\ cpc[r] = "done"
         /\ FailedTerminally(r) # {}
         /\ Readable(IdOf(r))
         /\ progress[IdOf(r)][1].status = "completed") =>
            progress[IdOf(r)][1].pagesProcessed < progress[IdOf(r)][1].totalEnqueued

\* C27: every progress record written during a crawl has pagesProcessed no
\* greater than totalEnqueued.
C27_ProcessedWithinEnqueued ==
    \A id \in JobIds :
        lastWrite[id] # <<>> =>
            lastWrite[id][1].rec.pagesProcessed <= lastWrite[id][1].rec.totalEnqueued

\* C29: whenever the progress record can be read with status completed, the
\* consolidated document is finalized: it exists, holds the final header and no
\* placeholder, and nothing is written to it afterwards.
Finalized(content) ==
    /\ \E i \in 1..Len(content) : content[i].kind = "header"
    /\ \A i \in 1..Len(content) : content[i].kind # "temp"

C29_CompletedMeansFinalized ==
    [][ \A id \in JobIds :
          (Readable(id) /\ progress[id][1].status = "completed") =>
              /\ id \in docExists
              /\ Finalized(doc[id])
              /\ doc'[id] = doc[id] ]_vars

Wrote(u, format) ==
    /\ saveFault[format] = "none"
    /\ \E i \in 1..Len(cliH[u].saved) : cliH[u].saved[i] = format

C21_NoSilentOverwrite ==
    \A u \in AllPages, format \in {"json", "markdown"} :
        Wrote(u, format) => \E f \in files : f.format = format /\ f.from = u

\* C23: in the Markdown, HTML and single-file formatters main text of exactly
\* the character budget is emitted in full without the truncation marker, and
\* main text of more than the budget is cut to the budget and carries the marker.
HasContent(section, shown, marker) ==
    \E i \in 1..Len(section) :
        section[i].part = "content" /\ section[i].shown = shown /\ section[i].more = marker

TruncatesAtBudget(step) ==
    sect.step = step =>
        /\ sect.page.text = ContentBudget => HasContent(sect.section, ContentBudget, FALSE)
        /\ sect.page.text > ContentBudget => HasContent(sect.section, ContentBudget, TRUE)

C23_TruncationBoundary ==
    /\ TruncatesAtBudget("markdown")
    /\ TruncatesAtBudget("html")
    /\ TruncatesAtBudget("section")

\* C24: isInternalUrl(url, baseDomain) is true exactly when the URL parses and
\* its hostname is baseDomain or something followed by a dot and baseDomain;
\* notexample.edu against example.edu, example.com against example.edu and a
\* string that is no URL give false.
IsSubdomainOf(hostname, baseDomain) ==
    \E k \in 1..Len(hostname) :
        /\ hostname[k] = "."
        /\ SubSeq(hostname, k + 1, Len(hostname)) = baseDomain

C24_InternalIffSameOrSubdomain ==
    norm.step = "internal" =>
        /\ norm.result =
              (/\ ParsesHost(norm.url)
               /\ \/ hostnameOf(norm.url) = norm.baseDomain
                  \/ IsSubdomainOf(hostnameOf(norm.url), norm.baseDomain))
        /\ (norm.url = HostUrl(<<"not", "example", ".", "edu">>)
            /\ norm.baseDomain = <<"example", ".", "edu">>) => ~norm.result
        /\ (norm.url = HostUrl(<<"example", ".", "com">>)
            /\ norm.baseDomain = <<"example", ".", "edu">>) => ~norm.result
        /\ norm.url = <<"junk">> => ~norm.result

C24_Witness ==
    /\ norm.step = "internal"
    /\ norm.url = HostUrl(<<"not", ".", "Example", ".", "edu">>)
    /\ norm.baseDomain = <<"example", ".", "edu">>
    /\ norm.result

====
